---- MODULE Spec2Model ----
(***************************************************************************)
(* A state-machine model of discrakt.py: the credentials check, the        *)
(* blocking connect_discord() retry loop, the 15-second scheduler loop     *)
(* (sleep, fetch, is_json, clear / parseData + update) and the SIGINT      *)
(* handler.  The presence service (pypresence) and the activity service    *)
(* (urlopen) are external: each call to them either returns or raises.     *)
(***************************************************************************)
EXTENDS Integers, Sequences, FiniteSets, TLC

VARIABLES
    creds,      \* the three values read from credentials.ini
    pc,         \* position of the single thread of control
    conn,       \* ConnectionState of the presence channel (RPC)
    fails,      \* consecutive failed RPC.connect() attempts of the current connect_discord()
    payload,    \* trakt_data: the bytes read by the fetch of this cycle
    fetched,    \* outcome of this cycle's fetch: "none", "error", "ok"
    calls,      \* presence-service calls and delays since the last scheduler sleep began
    opres,      \* result of this cycle's update()/clear(): "none", "ok", "fail"
    upd,        \* keyword arguments of the RPC.update() call of this cycle (<<>> if none)
    progress,   \* time.time() read and watchPercentage computed by parseData this cycle (<<>> if none)
    log,        \* diagnostics emitted since the last scheduler sleep began
    sigint,     \* "none", "now" (handler ran in this cycle), "past" (in an earlier one)
    exit        \* "running", "clean" (SystemExit), "error" (uncaught exception)

vars == <<creds, pc, conn, fails, payload, fetched, calls, opres, upd, progress, log, sigint, exit>>

(***************************************************************************)
(* Bounds of the model.                                                    *)
(***************************************************************************)
MaxFails == 3   \* consecutive handshake failures explored per connect_discord()
MaxTs == 2      \* started_at / expires_at range over 0..MaxTs
MaxNow == 3     \* time.time() ranges over 0..MaxNow

(***************************************************************************)
(* Program constants.                                                      *)
(***************************************************************************)
ConnectDelay == 15
CycleDelay == 15

(***************************************************************************)
(* JSON values.  A scalar is a tagged pair; an object is a function from   *)
(* its keys; a missing key is a key that is not in the DOMAIN.             *)
(***************************************************************************)
JStr(s) == <<"str", s>>
JInt(s) == <<"int", s>>
JNull == <<"null", "">>
Ts(n) == <<"ts", n>>        \* a time string dateutil parses to epoch second n
BadTs == <<"bad", 0>>       \* a value dateutil.parser.parse() rejects

Drop(o, k) == [f \in DOMAIN o \ {k} |-> o[f]]

Episode(show, title, s, e) ==
    [type |-> JStr("episode"), started_at |-> Ts(s), expires_at |-> Ts(e),
     show |-> [title |-> show],
     episode |-> [season |-> JInt("1"), number |-> JInt("2"), title |-> title]]

Movie(title, year, s, e) ==
    [type |-> JStr("movie"), started_at |-> Ts(s), expires_at |-> Ts(e),
     movie |-> [title |-> title, year |-> year]]

EpisodeX == Episode(JStr("X"), JStr("Pilot"), 0, 2)
MovieM == Movie(JStr("M"), JInt("1999"), 0, 2)

WellFormed ==
    {Episode(st, et, 0, 2) : st \in {JStr("X"), JStr(""), JNull}, et \in {JStr("Pilot"), JNull}}
    \cup {Movie(mt, y, 0, 2) : mt \in {JStr("M"), JStr("")}, y \in {JInt("1999"), JNull}}
    \cup {Episode(JStr("X"), JStr("Pilot"), s, e) : s \in 0..MaxTs, e \in 0..MaxTs}
    \cup {Movie(JStr("M"), JInt("1999"), s, e) : s \in 0..MaxTs, e \in 0..MaxTs}

Incomplete ==
    {Drop(o, k) : o \in {EpisodeX, MovieM}, k \in {"type", "started_at", "expires_at", "show", "episode", "movie"}}
    \cup {[EpisodeX EXCEPT !.show = Drop(EpisodeX.show, "title")]}
    \cup {[EpisodeX EXCEPT !.episode = Drop(EpisodeX.episode, k)] : k \in {"season", "number", "title"}}
    \cup {[MovieM EXCEPT !.movie = Drop(MovieM.movie, k)] : k \in {"title", "year"}}

OtherKind ==
    {[o EXCEPT !.type = t] : o \in {EpisodeX, MovieM}, t \in {JStr("show"), JNull}}

BadTime ==
    {[o EXCEPT !.started_at = BadTs] : o \in {EpisodeX, MovieM}}
    \cup {[o EXCEPT !.expires_at = BadTs] : o \in {EpisodeX, MovieM}}

Objects == WellFormed \cup Incomplete \cup OtherKind \cup BadTime

(***************************************************************************)
(* Response bodies.  raw is what the bytes are: "empty", "garbage" (not    *)
(* JSON) or "json"; a JSON body decodes to an object or to something else. *)
(***************************************************************************)
NoPayload == [raw |-> "none"]
Payloads ==
    {[raw |-> "empty"], [raw |-> "garbage"], [raw |-> "json", isobj |-> FALSE]}
    \cup {[raw |-> "json", isobj |-> TRUE, obj |-> o] : o \in Objects}

\* json.loads(): ValueError for anything that is not a JSON document
JsonLoadsRaises(p) == p.raw # "json"

\* is_json(): True unless json.loads() raised ValueError
is_json(p) == ~JsonLoadsRaises(p)

(***************************************************************************)
(* parseData().  The result is what the call does: "raise" (an exception   *)
(* leaves parseData before the try block), "unbound" (the else branch was  *)
(* taken, so evaluating the arguments of RPC.update() raises               *)
(* UnboundLocalError inside the try block) or "call" (RPC.update() is      *)
(* invoked with args).                                                     *)
(***************************************************************************)
Raise(e) == [result |-> "raise", exc |-> e]
Unbound == [result |-> "unbound", exc |-> "UnboundLocalError"]
Call(a, m) == [result |-> "call", args |-> a, msg |-> m]

\* "{}".format(v) of a JSON scalar
Format(v) == IF v[1] = "null" THEN "None" ELSE v[2]

UpdateArgs(state, details, s, e, media) ==
    [state |-> state, details |-> details, start |-> s, end |-> e,
     large_image |-> media, small_image |-> "trakt"]

\* parseEpisode with the episode title alone as state (no "S{}E{} - " prefix)
parseEpisodeTitleOnly(o, s, e) ==
    IF "show" \notin DOMAIN o THEN Raise("KeyError")
    ELSE IF "title" \notin DOMAIN o.show THEN Raise("KeyError")
    ELSE IF "episode" \notin DOMAIN o THEN Raise("KeyError")
    ELSE IF {"season", "number", "title"} \ DOMAIN o.episode # {} THEN Raise("KeyError")
    ELSE Call(UpdateArgs(o.episode.title, o.show.title, s, e, "tv"), "TV Show")

parseEpisode(o, s, e) ==
    IF "show" \notin DOMAIN o THEN Raise("KeyError")
    ELSE IF "title" \notin DOMAIN o.show THEN Raise("KeyError")
    ELSE IF "episode" \notin DOMAIN o THEN Raise("KeyError")
    ELSE IF {"season", "number", "title"} \ DOMAIN o.episode # {} THEN Raise("KeyError")
    ELSE Call(UpdateArgs(
                JStr("S" \o Format(o.episode.season) \o "E" \o Format(o.episode.number)
                         \o " - " \o Format(o.episode.title)),
                o.show.title, s, e, "tv"), "TV Show")

parseMovie(o, s, e) ==
    IF "movie" \notin DOMAIN o THEN Raise("KeyError")
    ELSE IF "title" \notin DOMAIN o.movie THEN Raise("KeyError")
    ELSE IF "year" \notin DOMAIN o.movie THEN Raise("KeyError")
    ELSE Call(UpdateArgs(o.movie.year, o.movie.title, s, e, "movie"), "Movie")

parseKind(o, s, e) ==
    IF "type" \notin DOMAIN o THEN Raise("KeyError")
    ELSE IF o.type = JStr("episode") THEN parseEpisode(o, s, e)
    ELSE IF o.type = JStr("movie") THEN parseMovie(o, s, e)
    ELSE Unbound

parseData(data) ==
    IF ~data.isobj THEN Raise("TypeError")
    ELSE LET o == data.obj IN
        IF "started_at" \notin DOMAIN o THEN Raise("KeyError")
        ELSE IF o.started_at[1] # "ts" THEN Raise("ParserError")
        ELSE IF "expires_at" \notin DOMAIN o THEN Raise("KeyError")
        ELSE IF o.expires_at[1] # "ts" THEN Raise("ParserError")
        ELSE IF o.expires_at[2] - o.started_at[2] = 0 THEN Raise("ZeroDivisionError")
        ELSE parseKind(o, o.started_at[2], o.expires_at[2])

(***************************************************************************)
(* watchPercentage: "{:.2%}".format((time.time() - start) / (end - start)),*)
(* i.e. the quotient in hundredths of a percent, rounded to the nearest.   *)
(***************************************************************************)
RoundDiv(a, b) ==
    LET n == IF b < 0 THEN 0 - a ELSE a
        d == IF b < 0 THEN 0 - b ELSE b
    IN (2 * n + d) \div (2 * d)

watchPercentage(s, e, now) == RoundDiv((now - s) * 10000, e - s)

\* lines 90-96 were executed without raising
TimesParsed(p) ==
    /\ p.raw = "json" /\ p.isobj
    /\ {"started_at", "expires_at"} \subseteq DOMAIN p.obj
    /\ p.obj.started_at[1] = "ts" /\ p.obj.expires_at[1] = "ts"
    /\ p.obj.expires_at[2] # p.obj.started_at[2]

(***************************************************************************)
(* State after the module-level construction: nothing connected, nothing   *)
(* fetched, credentials.ini holding any combination of values.             *)
(***************************************************************************)
CredValues == {"missing", "empty", "set"}
CredNames == {"traktClientID", "traktUser", "discordClientID"}

Init ==
    /\ creds \in [CredNames -> CredValues]
    /\ pc = "credentials"
    /\ conn = "Disconnected"
    /\ fails = 0
    /\ payload = NoPayload
    /\ fetched = "none"
    /\ calls = <<>>
    /\ opres = "none"
    /\ upd = <<>>
    /\ progress = <<>>
    /\ log = {}
    /\ sigint = "none"
    /\ exit = "running"

\* the process ends: status 0 on SystemExit, a traceback otherwise
Terminate(status) == pc' = "done" /\ exit' = status

(***************************************************************************)
(* Credentials check: a missing key raises KeyError (caught, "Missing      *)
(* Credentials"), an empty value logs "Undefined Credentials"; both raise  *)
(* SystemExit.  Otherwise control reaches the first connect_discord().     *)
(***************************************************************************)
\* CheckCredentials followed by the loop without the first connect_discord()
CheckCredentialsSkipsConnect ==
    /\ pc = "credentials"
    /\ IF \E n \in CredNames : creds[n] = "missing"
         THEN log' = {"Missing Credentials"} /\ Terminate("clean")
       ELSE IF \E n \in CredNames : creds[n] = "empty"
         THEN log' = {"Undefined Credentials"} /\ Terminate("clean")
       ELSE log' = log /\ pc' = "sleep" /\ exit' = exit
    /\ UNCHANGED <<creds, progress, conn, fails, payload, fetched, calls, opres, upd, sigint>>

\* CheckCredentials without the test for empty values
CheckCredentialsIgnoresEmpty ==
    /\ pc = "credentials"
    /\ IF \E n \in CredNames : creds[n] = "missing"
         THEN log' = {"Missing Credentials"} /\ Terminate("clean")
       ELSE log' = log /\ pc' = "connect_discord" /\ exit' = exit
    /\ UNCHANGED <<creds, progress, conn, fails, payload, fetched, calls, opres, upd, sigint>>

CheckCredentials ==
    /\ pc = "credentials"
    /\ IF \E n \in CredNames : creds[n] = "missing"
         THEN log' = {"Missing Credentials"} /\ Terminate("clean")
       ELSE IF \E n \in CredNames : creds[n] = "empty"
         THEN log' = {"Undefined Credentials"} /\ Terminate("clean")
       ELSE log' = log /\ pc' = "connect_discord" /\ exit' = exit
    /\ UNCHANGED <<creds, progress, conn, fails, payload, fetched, calls, opres, upd, sigint>>

(***************************************************************************)
(* connect_discord(): while True: try RPC.connect(), break; except         *)
(* Exception: warn, time.sleep(15).  Every caller continues at the top of  *)
(* the scheduler loop, i.e. at the scheduler sleep.                        *)
(***************************************************************************)
ConnectAttempt ==
    /\ pc = "connect_discord"
    /\ conn' = "Connecting"
    /\ calls' = Append(calls, <<"connect", 0>>)
    /\ pc' = "RPC_connect"
    /\ UNCHANGED <<creds, progress, fails, payload, fetched, opres, upd, log, sigint, exit>>

\* ConnectSuccess that sends the failed update again once reconnected
ConnectSuccessResends ==
    /\ pc = "RPC_connect"
    /\ conn' = "Connected"
    /\ fails' = 0
    /\ log' = log \cup {"Discord Connection Successful"}
    /\ IF opres = "fail" /\ upd # <<>>
         THEN pc' = "update" /\ calls' = Append(calls, <<"update", 0>>)
         ELSE pc' = "sleep" /\ calls' = calls
    /\ UNCHANGED <<creds, progress, payload, fetched, opres, upd, sigint, exit>>

ConnectSuccess ==
    /\ pc = "RPC_connect"
    /\ conn' = "Connected"
    /\ fails' = 0
    /\ log' = log \cup {"Discord Connection Successful"}
    /\ pc' = "sleep"
    /\ UNCHANGED <<creds, progress, payload, fetched, calls, opres, upd, sigint, exit>>

\* ConnectFailure that gives up on the second consecutive failure
ConnectFailureGivesUp ==
    /\ pc = "RPC_connect"
    /\ fails < MaxFails
    /\ fails' = fails + 1
    /\ log' = log \cup {"Discord Connection Failure"}
    /\ pc' = IF fails >= 1 THEN "sleep" ELSE "connect_delay"
    /\ UNCHANGED <<creds, progress, conn, payload, fetched, calls, opres, upd, sigint, exit>>

ConnectFailure ==
    /\ pc = "RPC_connect"
    /\ fails < MaxFails
    /\ fails' = fails + 1
    /\ log' = log \cup {"Discord Connection Failure"}
    /\ pc' = "connect_delay"
    /\ UNCHANGED <<creds, progress, conn, payload, fetched, calls, opres, upd, sigint, exit>>

ConnectRetry ==
    /\ pc = "connect_delay"
    /\ calls' = Append(calls, <<"sleep", ConnectDelay>>)
    /\ pc' = "connect_discord"
    /\ UNCHANGED <<creds, progress, conn, fails, payload, fetched, opres, upd, log, sigint, exit>>

(***************************************************************************)
(* The scheduler loop.                                                     *)
(***************************************************************************)
\* time.sleep(15): the first statement of every iteration
Sleep ==
    /\ pc = "sleep"
    /\ pc' = "fetch"
    /\ fetched' = "none"
    /\ calls' = << <<"sleep", CycleDelay>> >>
    /\ opres' = "none"
    /\ upd' = <<>>
    /\ progress' = <<>>
    /\ log' = {}
    /\ sigint' = IF sigint = "none" THEN "none" ELSE "past"
    /\ UNCHANGED <<creds, conn, fails, payload, exit>>

\* Fetch with the failure handler falling through to the dispatch (no continue)
FetchFallsThrough ==
    /\ pc = "fetch"
    /\ \/ /\ fetched' = "error"
          /\ log' = log \cup {"Trakt Connection Failure"}
          /\ pc' = IF payload = NoPayload THEN "sleep" ELSE "is_json"
          /\ payload' = payload
       \/ /\ \E p \in Payloads : payload' = p
          /\ fetched' = "ok"
          /\ log' = log
          /\ pc' = "is_json"
    /\ UNCHANGED <<creds, progress, conn, fails, calls, opres, upd, sigint, exit>>

\* Fetch whose failure handler starts the next fetch without the scheduler sleep
FetchRetriesWithoutSleep ==
    /\ pc = "fetch"
    /\ \/ /\ fetched' = "error"
          /\ log' = log \cup {"Trakt Connection Failure"}
          /\ pc' = "fetch"
          /\ payload' = payload
       \/ /\ \E p \in Payloads : payload' = p
          /\ fetched' = "ok"
          /\ log' = log
          /\ pc' = "is_json"
    /\ UNCHANGED <<creds, progress, conn, fails, calls, opres, upd, sigint, exit>>

\* urlopen(request).read() inside try / except Exception: warn, continue
Fetch ==
    /\ pc = "fetch"
    /\ \/ /\ fetched' = "error"
          /\ log' = log \cup {"Trakt Connection Failure"}
          /\ pc' = "sleep"
          /\ payload' = payload
       \/ /\ \E p \in Payloads : payload' = p
          /\ fetched' = "ok"
          /\ log' = log
          /\ pc' = "is_json"
    /\ UNCHANGED <<creds, progress, conn, fails, calls, opres, upd, sigint, exit>>

\* if not is_json(trakt_data): RPC.clear() is invoked; else parseData(...)
Dispatch ==
    /\ pc = "is_json"
    /\ IF ~is_json(payload)
         THEN /\ log' = log \cup {"Nothing is being played"}
              /\ calls' = Append(calls, <<"clear", 0>>)
              /\ pc' = "clear"
         ELSE /\ log' = log
              /\ calls' = calls
              /\ pc' = "parseData"
    /\ UNCHANGED <<creds, progress, conn, fails, payload, fetched, opres, upd, sigint, exit>>

\* Clear with connect_discord() called whether or not clear() raised
ClearAlwaysReconnects ==
    /\ pc = "clear"
    /\ \/ opres' = "ok" /\ conn' = conn /\ pc' = "connect_discord"
       \/ opres' = "fail" /\ conn' = "Disconnected" /\ pc' = "connect_discord"
    /\ UNCHANGED <<creds, progress, fails, payload, fetched, calls, upd, log, sigint, exit>>

\* Clear without the try / except: a failure of clear() is uncaught
ClearUnguarded ==
    /\ pc = "clear"
    /\ \/ opres' = "ok" /\ conn' = conn /\ pc' = "sleep" /\ exit' = exit
       \/ opres' = "fail" /\ conn' = "Disconnected" /\ Terminate("error")
    /\ UNCHANGED <<creds, progress, fails, payload, fetched, calls, upd, log, sigint>>

\* RPC.clear() returns, or raises and the handler calls connect_discord()
Clear ==
    /\ pc = "clear"
    /\ \/ opres' = "ok" /\ conn' = conn /\ pc' = "sleep"
       \/ opres' = "fail" /\ conn' = "Disconnected" /\ pc' = "connect_discord"
    /\ UNCHANGED <<creds, progress, fails, payload, fetched, calls, upd, log, sigint, exit>>

\* parseData(json.loads(trakt_data)) up to the invocation of RPC.update()
ParseData ==
    /\ pc = "parseData"
    /\ \E now \in 0..MaxNow :
         progress' = IF TimesParsed(payload)
                       THEN <<[now |-> now,
                               pct |-> watchPercentage(payload.obj.started_at[2],
                                                       payload.obj.expires_at[2], now)]>>
                       ELSE <<>>
    /\ LET r == parseData(payload) IN
        CASE r.result = "raise" ->
                /\ Terminate("error")
                /\ UNCHANGED <<log, calls, upd>>
          [] r.result = "unbound" ->
                /\ log' = log \cup {"Media Error"}
                /\ pc' = "connect_discord"
                /\ UNCHANGED <<exit, calls, upd>>
          [] r.result = "call" ->
                /\ log' = log \cup {r.msg}
                /\ upd' = <<r.args>>
                /\ calls' = Append(calls, <<"update", 0>>)
                /\ pc' = "update"
                /\ exit' = exit
    /\ UNCHANGED <<creds, conn, fails, payload, fetched, opres, sigint>>

\* Update with the failure swallowed (except Exception: pass)
UpdateSwallowsFailure ==
    /\ pc = "update"
    /\ \/ opres' = "ok" /\ conn' = conn /\ pc' = "sleep"
       \/ opres' = "fail" /\ conn' = "Disconnected" /\ pc' = "sleep"
    /\ UNCHANGED <<creds, progress, fails, payload, fetched, calls, upd, log, sigint, exit>>

\* RPC.update() returns, or raises and the handler calls connect_discord()
Update ==
    /\ pc = "update"
    /\ \/ opres' = "ok" /\ conn' = conn /\ pc' = "sleep"
       \/ opres' = "fail" /\ conn' = "Disconnected" /\ pc' = "connect_discord"
    /\ UNCHANGED <<creds, progress, fails, payload, fetched, calls, upd, log, sigint, exit>>

(***************************************************************************)
(* signal_handler(): logs the uptime, calls RPC.close() swallowing only    *)
(* ConnectionResetError, sleeps 2 s and raises SystemExit.  Any other      *)
(* exception of close() leaves the handler and is raised at the point the  *)
(* main thread was interrupted: inside a try / except Exception it is      *)
(* handled like the failure that try guards against, elsewhere it is       *)
(* uncaught.                                                               *)
(***************************************************************************)
CloseOutcomes == {"ok", "ConnectionResetError", "OtherError"}

SignalHandler ==
    /\ pc \notin {"credentials", "done"}
    /\ sigint' = "now"
    /\ \E c \in CloseOutcomes :
        IF c # "OtherError"
          THEN /\ calls' = calls \o << <<"close", 0>>, <<"sleep", 2>> >>
               /\ Terminate("clean")
               /\ UNCHANGED <<conn, fails, fetched, opres, log>>
          ELSE /\ calls' = Append(calls, <<"close", 0>>)
               /\ CASE pc = "fetch" ->
                        /\ fetched' = "error"
                        /\ log' = log \cup {"Trakt Connection Failure"}
                        /\ pc' = "sleep"
                        /\ UNCHANGED <<conn, fails, opres, exit>>
                    [] pc \in {"clear", "update"} ->
                        /\ opres' = "fail"
                        /\ pc' = "connect_discord"
                        /\ UNCHANGED <<conn, fails, fetched, log, exit>>
                    [] pc \in {"connect_discord", "RPC_connect"} ->
                        /\ fails < MaxFails
                        /\ fails' = fails + 1
                        /\ log' = log \cup {"Discord Connection Failure"}
                        /\ pc' = "connect_delay"
                        /\ UNCHANGED <<conn, fetched, opres, exit>>
                    [] OTHER ->
                        /\ Terminate("error")
                        /\ UNCHANGED <<conn, fails, fetched, opres, log>>
    /\ UNCHANGED <<creds, progress, payload, upd>>

Next ==
    \/ CheckCredentials
    \/ ConnectAttempt
    \/ ConnectSuccess
    \/ ConnectFailure
    \/ ConnectRetry
    \/ Sleep
    \/ Fetch
    \/ Dispatch
    \/ Clear
    \/ ParseData
    \/ Update
    \/ SignalHandler

Spec == Init /\ [][Next]_vars

(***************************************************************************)
(* Scheduling: the thread always takes its next step (a sleep ends, a      *)
(* connect attempt is started), and the presence-service handshake, tried  *)
(* again and again, eventually succeeds.  Nothing is assumed about the     *)
(* interrupt, the fetch or the outcome of update() and clear().            *)
(***************************************************************************)
Fairness ==
    /\ WF_vars(ConnectAttempt)
    /\ WF_vars(ConnectRetry)
    /\ SF_vars(ConnectSuccess)
    /\ WF_vars(Sleep)

LiveSpec == Init /\ [][Next]_vars /\ Fairness

(***************************************************************************)
(* The discrackt.py revision.  It has no credentials check, fetches        *)
(* before it sleeps, catches only ConnectionRefusedError around the fetch  *)
(* and around RPC.update(), and uses a bare except: around RPC.connect()   *)
(* and RPC.clear().  connect_discord()'s attempt, failure and delay, the   *)
(* dispatch, clear() and the sleep behave as above.                        *)
(***************************************************************************)
R_Init ==
    /\ creds = [n \in CredNames |-> "set"]
    /\ pc = "connect_discord"
    /\ conn = "Disconnected"
    /\ fails = 0
    /\ payload = NoPayload
    /\ fetched = "none"
    /\ calls = <<>>
    /\ opres = "none"
    /\ upd = <<>>
    /\ progress = <<>>
    /\ log = {}
    /\ sigint = "none"
    /\ exit = "running"

\* break: the first call returns to the top of the loop, where the first iteration
\* (and its history) begins with the fetch; the others return to the sleep that
\* ends the iteration
R_ConnectSuccess ==
    /\ pc = "RPC_connect"
    /\ conn' = "Connected"
    /\ fails' = 0
    /\ IF fetched = "none"
         THEN /\ pc' = "fetch"
              /\ calls' = <<>>
              /\ log' = {}
              /\ sigint' = IF sigint = "none" THEN "none" ELSE "past"
         ELSE /\ pc' = "sleep"
              /\ calls' = calls
              /\ log' = log \cup {"Discord Connection Successful"}
              /\ sigint' = sigint
    /\ UNCHANGED <<creds, progress, payload, fetched, opres, upd, exit>>

\* urlopen(request).read() inside try / except ConnectionRefusedError: print
R_Fetch ==
    /\ pc = "fetch"
    /\ \/ /\ \E p \in Payloads : payload' = p
          /\ fetched' = "ok"
          /\ log' = log
          /\ pc' = "is_json" /\ exit' = exit
       \/ /\ fetched' = "error"
          /\ log' = log \cup {"Trakt Connection Failure"}
          /\ payload' = payload
          /\ IF payload = NoPayload
               THEN Terminate("error")
               ELSE pc' = "is_json" /\ exit' = exit
       \/ /\ fetched' = "error"
          /\ log' = log
          /\ payload' = payload
          /\ Terminate("error")
    /\ UNCHANGED <<creds, progress, conn, fails, calls, opres, upd, sigint>>

\* parseData(): the kind is inspected first, then the times and the percentage
R_parseData(data) ==
    IF ~data.isobj THEN Raise("TypeError")
    ELSE LET o == data.obj
             k == parseKind(o, 0, 0)
         IN IF k.result = "raise" THEN k
            ELSE IF "started_at" \notin DOMAIN o THEN Raise("KeyError")
            ELSE IF o.started_at[1] # "ts" THEN Raise("ParserError")
            ELSE IF "expires_at" \notin DOMAIN o THEN Raise("KeyError")
            ELSE IF o.expires_at[1] # "ts" THEN Raise("ParserError")
            ELSE IF o.expires_at[2] - o.started_at[2] = 0 THEN Raise("ZeroDivisionError")
            ELSE IF k.result = "unbound" THEN Raise("UnboundLocalError")
            ELSE parseKind(o, o.started_at[2], o.expires_at[2])

\* lines 63-78 raised / took the else branch
R_kindRaises(p) == ~p.isobj \/ parseKind(p.obj, 0, 0).result = "raise"
R_kindUnknown(p) == p.isobj /\ parseKind(p.obj, 0, 0).result = "unbound"

R_ParseData ==
    /\ pc = "parseData"
    /\ LET r == R_parseData(payload) IN
        /\ \E now \in 0..MaxNow :
             progress' = IF TimesParsed(payload) /\ ~R_kindRaises(payload)
                           THEN <<[now |-> now,
                                   pct |-> watchPercentage(payload.obj.started_at[2],
                                                           payload.obj.expires_at[2], now)]>>
                           ELSE <<>>
        /\ IF r.result = "raise"
             THEN /\ Terminate("error")
                  /\ log' = IF R_kindUnknown(payload)
                              THEN log \cup {"Media Error"} ELSE log
                  /\ UNCHANGED <<calls, upd>>
             ELSE /\ log' = log \cup {r.msg}
                  /\ upd' = <<r.args>>
                  /\ calls' = Append(calls, <<"update", 0>>)
                  /\ pc' = "update"
                  /\ exit' = exit
    /\ UNCHANGED <<creds, conn, fails, payload, fetched, opres, sigint>>

\* RPC.update() returns, raises ConnectionRefusedError (reconnect) or raises something else
R_Update ==
    /\ pc = "update"
    /\ \/ opres' = "ok" /\ conn' = conn /\ pc' = "sleep" /\ exit' = exit
       \/ opres' = "fail" /\ conn' = "Disconnected" /\ pc' = "connect_discord" /\ exit' = exit
       \/ opres' = "fail" /\ conn' = "Disconnected" /\ Terminate("error")
    /\ UNCHANGED <<creds, progress, fails, payload, fetched, calls, upd, log, sigint>>

(***************************************************************************)
(* signal_handler() of discrackt.py: RPC.close() swallowing only           *)
(* ConnectionResetError, then raise SystemExit.  SystemExit, or the other  *)
(* exception of close(), is raised at the point the main thread was        *)
(* interrupted: a bare except: there absorbs it, whatever it is.           *)
(***************************************************************************)
R_SignalHandler ==
    /\ pc # "done"
    /\ sigint' = "now"
    /\ calls' = Append(calls, <<"close", 0>>)
    /\ \E c \in CloseOutcomes :
        CASE pc \in {"connect_discord", "RPC_connect"} ->
                /\ fails < MaxFails
                /\ fails' = fails + 1
                /\ log' = log \cup {"Discord Connection Failure"}
                /\ pc' = "connect_delay"
                /\ UNCHANGED <<conn, fetched, opres, exit>>
          [] pc = "clear" ->
                /\ opres' = "fail"
                /\ pc' = "connect_discord"
                /\ UNCHANGED <<conn, fails, fetched, log, exit>>
          [] OTHER ->
                /\ Terminate(IF c = "OtherError" THEN "error" ELSE "clean")
                /\ UNCHANGED <<conn, fails, fetched, opres, log>>
    /\ UNCHANGED <<creds, progress, payload, upd>>

NextR ==
    \/ ConnectAttempt
    \/ R_ConnectSuccess
    \/ ConnectFailure
    \/ ConnectRetry
    \/ Sleep
    \/ R_Fetch
    \/ Dispatch
    \/ Clear
    \/ R_ParseData
    \/ R_Update
    \/ R_SignalHandler

SpecR == R_Init /\ [][NextR]_vars

TypeOK ==
    /\ pc \in {"credentials", "connect_discord", "RPC_connect", "connect_delay", "sleep",
               "fetch", "is_json", "clear", "parseData", "update", "done"}
    /\ conn \in {"Disconnected", "Connecting", "Connected"}
    /\ fails \in 0..MaxFails
    /\ payload \in Payloads \cup {NoPayload}
    /\ fetched \in {"none", "error", "ok"}
    /\ opres \in {"none", "ok", "fail"}
    /\ Len(upd) <= 1
    /\ Len(progress) <= 1
    /\ sigint \in {"none", "now", "past"}
    /\ exit \in {"running", "clean", "error"}
    /\ (exit # "running") <=> (pc = "done")

(***************************************************************************)
(* Vocabulary of the properties.                                           *)
(***************************************************************************)
Count(op) == Cardinality({i \in 1..Len(calls) : calls[i][1] = op})

\* the step is a run of signal_handler(): it is the only one that calls close()
SigStep == Count("close")' = Count("close") + 1

\* signal_handler() ran in the current cycle
Interrupted == sigint = "now"

ConnectPcs == {"connect_discord", "RPC_connect", "connect_delay"}

Parsed == fetched = "ok" /\ is_json(payload)

(***************************************************************************)
(* C1: in a cycle whose fetch raised a network failure, no presence        *)
(* operation (update, clear, connect) is performed, the process keeps      *)
(* running, and the next step is the scheduler sleep leading to the next   *)
(* fetch.                                                                  *)
(***************************************************************************)
C1_FetchFailed == fetched = "error" /\ ~Interrupted

C1_FetchFailureSkipsCycle ==
    /\ [](C1_FetchFailed =>
            /\ pc = "sleep"
            /\ exit = "running"
            /\ Count("update") = 0 /\ Count("clear") = 0 /\ Count("connect") = 0)
    /\ [][(C1_FetchFailed /\ ~Interrupted') => (pc' = "fetch" /\ exit' = "running")]_vars

C1_Witness == C1_FetchFailed /\ pc = "sleep" /\ "Trakt Connection Failure" \in log

(***************************************************************************)
(* C2: in a cycle whose payload is empty or not JSON, clear() is invoked   *)
(* exactly once, update() is not invoked, the loop does not halt, and      *)
(* when clear() succeeded no connect attempt is made in that cycle.        *)
(***************************************************************************)
C2_IdleCycle == fetched = "ok" /\ payload.raw \in {"empty", "garbage"} /\ ~Interrupted

C2_IdleClearsOnce ==
    C2_IdleCycle =>
        /\ exit = "running"
        /\ Count("update") = 0 /\ upd = <<>>
        /\ Count("clear") = (IF pc = "is_json" THEN 0 ELSE 1)
        /\ (opres = "ok" => Count("connect") = 0 /\ pc = "sleep")
        /\ (pc = "sleep" => opres # "none")

C2_Witness == C2_IdleCycle /\ pc = "sleep" /\ opres = "ok" /\ Count("clear") = 1

(***************************************************************************)
(* C3: for a payload whose type is neither "episode" nor "movie" (time     *)
(* fields well-formed), a warning is emitted, no update() is sent, no      *)
(* connect attempt is made while the channel is Connected, and the loop    *)
(* does not crash.                                                         *)
(***************************************************************************)
UnknownKind(p) ==
    /\ p.raw = "json" /\ p.isobj
    /\ {"type", "started_at", "expires_at"} \subseteq DOMAIN p.obj
    /\ p.obj.started_at[1] = "ts" /\ p.obj.expires_at[1] = "ts"
    /\ p.obj.started_at[2] # p.obj.expires_at[2]
    /\ p.obj.type \notin {JStr("episode"), JStr("movie")}

C3_UnknownKindIsIdle ==
    (fetched = "ok" /\ UnknownKind(payload) /\ ~Interrupted) =>
        /\ exit = "running"
        /\ Count("update") = 0
        /\ Count("connect") = 0
        /\ (pc \notin {"is_json", "parseData"} => "Media Error" \in log)

(***************************************************************************)
(* C4: for a payload that is valid JSON but is not an object or lacks a    *)
(* required field, no update() is published and the scheduler loop does    *)
(* not terminate.                                                          *)
(***************************************************************************)
MissingField(p) ==
    /\ p.raw = "json"
    /\ \/ ~p.isobj
       \/ /\ p.isobj
          /\ LET o == p.obj IN
               \/ {"type", "started_at", "expires_at"} \ DOMAIN o # {}
               \/ /\ "type" \in DOMAIN o /\ o.type = JStr("episode")
                  /\ \/ "show" \notin DOMAIN o
                     \/ "episode" \notin DOMAIN o
                     \/ "show" \in DOMAIN o /\ "title" \notin DOMAIN o.show
                     \/ "episode" \in DOMAIN o
                          /\ {"season", "number", "title"} \ DOMAIN o.episode # {}
               \/ /\ "type" \in DOMAIN o /\ o.type = JStr("movie")
                  /\ \/ "movie" \notin DOMAIN o
                     \/ "movie" \in DOMAIN o /\ {"title", "year"} \ DOMAIN o.movie # {}

C4_IncompleteKeepsRunning ==
    (fetched = "ok" /\ MissingField(payload) /\ ~Interrupted) =>
        (exit = "running" /\ Count("update") = 0)

(***************************************************************************)
(* C5: for a payload with expires_at equal to started_at the process does  *)
(* not crash, no presence operation is performed in the cycle and the      *)
(* loop continues.                                                         *)
(***************************************************************************)
DegenerateRange(p) ==
    /\ p.raw = "json" /\ p.isobj
    /\ {"started_at", "expires_at"} \subseteq DOMAIN p.obj
    /\ p.obj.started_at[1] = "ts" /\ p.obj.expires_at[1] = "ts"
    /\ p.obj.started_at[2] = p.obj.expires_at[2]

C5_DegenerateRangeSkipped ==
    (fetched = "ok" /\ DegenerateRange(payload) /\ ~Interrupted) =>
        /\ exit = "running"
        /\ Count("update") = 0 /\ Count("clear") = 0 /\ Count("connect") = 0

(***************************************************************************)
(* C6: when update() or clear() fails the channel is taken as              *)
(* Disconnected and connect_discord() runs to completion before control    *)
(* returns to the scheduler, so the channel is Connected at the start of   *)
(* every fetch; the failure never ends the loop.                           *)
(***************************************************************************)
C6_FailureReconnectsBeforeFetch ==
    /\ [](pc \in {"sleep", "fetch"} => conn = "Connected")
    /\ []((opres = "fail" /\ ~Interrupted) => exit = "running")
    /\ [][(pc \in {"update", "clear"} /\ opres' = "fail" /\ ~SigStep) =>
              (conn' = "Disconnected" /\ pc' = "connect_discord")]_vars

C6_Witness ==
    /\ opres = "fail" /\ ~Interrupted
    /\ pc = "sleep" /\ conn = "Connected"
    /\ Count("connect") >= 2

(***************************************************************************)
(* C7: a failed update() is neither sent again nor queued: every cycle     *)
(* has at most one update() call, and that call carries the record parsed  *)
(* from the payload fetched in the same cycle.                             *)
(***************************************************************************)
C7_NoResendOfFailedUpdate ==
    /\ Count("update") <= 1
    /\ (Count("update") = 1 =>
            /\ Parsed
            /\ parseData(payload).result = "call"
            /\ upd = <<parseData(payload).args>>)
    /\ (Count("update") = 0 => upd = <<>>)

C7_Witness ==
    /\ Count("update") = 1 /\ opres = "fail" /\ ~Interrupted
    /\ Count("connect") >= 1
    /\ pc = "sleep" /\ conn = "Connected"

(***************************************************************************)
(* C8: connect_discord() returns only after a successful handshake; after  *)
(* every failed attempt it waits the fixed 15 seconds and attempts again,  *)
(* however many attempts have already failed.                              *)
(***************************************************************************)
C8_ConnectRetriesUntilSuccess ==
    /\ [][(pc \in ConnectPcs /\ pc' \notin ConnectPcs /\ ~SigStep) =>
              (pc = "RPC_connect" /\ conn' = "Connected" /\ pc' = "sleep")]_vars
    /\ [][(pc = "RPC_connect" /\ conn' # "Connected" /\ ~SigStep) =>
              (pc' = "connect_delay" /\ fails' = fails + 1)]_vars
    /\ [][(pc = "connect_delay" /\ ~SigStep) =>
              (pc' = "connect_discord" /\ calls' = Append(calls, <<"sleep", ConnectDelay>>)
                 /\ ConnectDelay = 15)]_vars
    /\ [][(pc = "connect_discord" /\ ~SigStep) =>
              (pc' = "RPC_connect" /\ Count("connect")' = Count("connect") + 1)]_vars

C8_Witness ==
    /\ pc = "sleep" /\ conn = "Connected" /\ sigint = "none"
    /\ Count("connect") = MaxFails + 1
    /\ calls[Len(calls)] = <<"connect", 0>>
    /\ calls[Len(calls) - 1] = <<"sleep", ConnectDelay>>

(***************************************************************************)
(* C9: calling connect while the channel is already Connected is a no-op:  *)
(* no handshake is attempted and the connection state is unchanged.        *)
(***************************************************************************)
C9_ConnectWhileConnectedIsNoOp ==
    [][(pc = "connect_discord" /\ conn = "Connected" /\ sigint = "none" /\ ~SigStep) =>
          (conn' = "Connected" /\ Count("connect")' = Count("connect"))]_vars

(***************************************************************************)
(* C10: on an interrupt the handler calls close() and terminates the       *)
(* process with a clean exit status whatever close() does.                 *)
(***************************************************************************)
C10_InterruptAlwaysExitsCleanly ==
    [][SigStep => (pc' = "done" /\ exit' = "clean")]_vars

(***************************************************************************)
(* C11: an interrupt delivered at any point of the scheduler ends the      *)
(* process: once the handler has run, no further fetch, update, clear or   *)
(* connect attempt occurs.                                                 *)
(***************************************************************************)
C11_NothingAfterInterrupt ==
    [][(sigint # "none" /\ ~SigStep) =>
          /\ Count("connect")' <= Count("connect")
          /\ Count("update")' <= Count("update")
          /\ Count("clear")' <= Count("clear")
          /\ ~(pc = "fetch" /\ pc' # "fetch")
          /\ pc' # "fetch"]_vars

(***************************************************************************)
(* C12: if any of the three credentials is missing or empty the process    *)
(* terminates before the loop: no connect attempt, no fetch and no         *)
(* presence operation ever occurs.                                         *)
(***************************************************************************)
BadCredentials == \E n \in CredNames : creds[n] # "set"

C12_BadCredentialsAbort ==
    /\ [](BadCredentials =>
            /\ pc \in {"credentials", "done"}
            /\ calls = <<>> /\ fetched = "none" /\ opres = "none"
            /\ conn = "Disconnected" /\ payload = NoPayload)
    /\ [][(BadCredentials /\ pc = "credentials") => (pc' = "done" /\ exit' # "running")]_vars

C12_Witness ==
    /\ \E n \in CredNames : creds[n] = "empty"
    /\ \A n \in CredNames : creds[n] # "missing"
    /\ pc = "done" /\ "Undefined Credentials" \in log

(***************************************************************************)
(* C13: for a well-formed payload the single update() of the cycle         *)
(* carries, for an episode, state "S{season}E{number} - {episode title}",  *)
(* details = show title and large image "tv"; for a movie, state = the     *)
(* year field exactly, details = movie title and large image "movie";      *)
(* start and end are the parsed started_at and expires_at.                 *)
(***************************************************************************)
WellFormedRecord(p) ==
    /\ TimesParsed(p)
    /\ "type" \in DOMAIN p.obj
    /\ \/ /\ p.obj.type = JStr("episode")
          /\ {"show", "episode"} \subseteq DOMAIN p.obj
          /\ "title" \in DOMAIN p.obj.show
          /\ {"season", "number", "title"} \subseteq DOMAIN p.obj.episode
       \/ /\ p.obj.type = JStr("movie")
          /\ "movie" \in DOMAIN p.obj
          /\ {"title", "year"} \subseteq DOMAIN p.obj.movie

ExpectedUpdate(o) ==
    IF o.type = JStr("episode")
      THEN [state |-> <<"str", "S" \o Format(o.episode.season) \o "E"
                               \o Format(o.episode.number) \o " - "
                               \o Format(o.episode.title)>>,
            details |-> o.show.title, start |-> o.started_at[2], end |-> o.expires_at[2],
            large_image |-> "tv", small_image |-> "trakt"]
      ELSE [state |-> o.movie.year,
            details |-> o.movie.title, start |-> o.started_at[2], end |-> o.expires_at[2],
            large_image |-> "movie", small_image |-> "trakt"]

C13_UpdateCarriesRecord ==
    (fetched = "ok" /\ WellFormedRecord(payload) /\ ~Interrupted
        /\ pc \notin {"is_json", "parseData"}) =>
        /\ Count("update") = 1
        /\ upd = <<ExpectedUpdate(payload.obj)>>
        /\ (payload.obj = EpisodeX =>
               /\ upd[1].state = <<"str", "S1E2 - Pilot">>
               /\ upd[1].details = <<"str", "X">>
               /\ upd[1].start = 0 /\ upd[1].end = 2)
        /\ (payload.obj = MovieM =>
               /\ upd[1].state = <<"int", "1999">>
               /\ upd[1].details = <<"str", "M">>)

C13_Witness ==
    /\ fetched = "ok" /\ payload.raw = "json" /\ payload.isobj /\ payload.obj = EpisodeX
    /\ pc = "sleep" /\ opres = "ok" /\ ~Interrupted
    /\ upd # <<>> /\ upd[1].state = <<"str", "S1E2 - Pilot">>

(***************************************************************************)
(* C14: the progress value is (now - startedAt) / (expiresAt - startedAt)  *)
(* clamped to [0,1]: it is 0 for every now before startedAt, 1 for every   *)
(* now after expiresAt, and never decreases as now advances from           *)
(* startedAt to expiresAt.                                                 *)
(***************************************************************************)
C14_ProgressClamped ==
    (progress # <<>> /\ Count("update") = 1 /\ ~Interrupted
        /\ payload.obj.started_at[2] < payload.obj.expires_at[2]) =>
        LET s == payload.obj.started_at[2]
            e == payload.obj.expires_at[2]
            now == progress[1].now
            pct == progress[1].pct
        IN /\ pct >= 0 /\ pct <= 10000
           /\ (now < s => pct = 0)
           /\ (now > e => pct = 10000)
           /\ \A later \in now..e : (now >= s) => watchPercentage(s, e, later) >= pct

(***************************************************************************)
(* C15: provided the handshake eventually succeeds, every entry into       *)
(* connect_discord() eventually returns, and after a failed update() or    *)
(* clear() the scheduler eventually starts another fetch (unless the       *)
(* process is interrupted).                                                *)
(***************************************************************************)
C15_ConnectReturnsAndPollingResumes ==
    /\ (pc = "connect_discord" /\ sigint = "none") ~> (pc = "sleep" \/ sigint # "none")
    /\ (opres = "fail" /\ sigint = "none") ~> (pc = "fetch" \/ sigint # "none")

C15_Witness ==
    /\ opres = "fail" /\ sigint = "none"
    /\ pc = "sleep" /\ conn = "Connected"
    /\ Count("connect") = MaxFails + 1

(***************************************************************************)
(* C16: the connection state changes only by Disconnected->Connecting,     *)
(* Connecting->Connected, Connecting->Connecting and                       *)
(* Connected->Disconnected; a connect attempt is never made while the      *)
(* channel is Connected.                                                   *)
(***************************************************************************)
ListedTransitions ==
    {<<"Disconnected", "Connecting">>, <<"Connecting", "Connected">>,
     <<"Connecting", "Connecting">>, <<"Connected", "Disconnected">>}

C16_OnlyListedTransitions ==
    [][(sigint = "none" /\ ~SigStep) =>
          /\ (conn' # conn => <<conn, conn'>> \in ListedTransitions)
          /\ (Count("connect")' > Count("connect") => conn # "Connected")]_vars

(***************************************************************************)
(* C17: every update() sent has a non-empty string as state and a          *)
(* non-empty string as details, whatever the payload; when the media kind  *)
(* cannot be determined no update() is sent.                               *)
(***************************************************************************)
NonEmptyString(v) == v[1] = "str" /\ v[2] # ""

C17_UpdateFieldsNonEmpty ==
    /\ (upd # <<>> => NonEmptyString(upd[1].state) /\ NonEmptyString(upd[1].details))
    /\ ((fetched = "ok" /\ UnknownKind(payload)) => upd = <<>> /\ Count("update") = 0)

(***************************************************************************)
(* C18: the scheduler is strictly sequential with one sleep per            *)
(* iteration: every iteration performs exactly one 15-second scheduler     *)
(* sleep, at most one fetch and at most one of update()/clear(), and a     *)
(* fetch starts only from the scheduler sleep, never while a presence      *)
(* operation or a reconnect is in progress.                                *)
(***************************************************************************)
\* delays recorded after the scheduler sleep are delays of connect_discord()
OnlyConnectDelays ==
    \A i \in 2..Len(calls) :
        calls[i] = <<"sleep", ConnectDelay>> =>
            (calls[i - 1][1] = "connect" \/ calls[i - 1][1] = "close")

C18_StrictlySequential ==
    /\ [](Count("update") + Count("clear") <= 1)
    /\ [](pc = "fetch" =>
            /\ calls = << <<"sleep", CycleDelay>> >>
            /\ fetched = "none" /\ opres = "none" /\ upd = <<>>)
    /\ [](fetched # "none" => calls[1] = <<"sleep", CycleDelay>> /\ OnlyConnectDelays)
    /\ [][(pc' = "fetch" /\ pc # "fetch") => pc = "sleep"]_vars
    /\ [][(fetched # "none" /\ fetched' # fetched) => (pc = "sleep" /\ fetched' = "none")]_vars
    /\ CycleDelay = 15

C18_Witness ==
    /\ pc = "sleep" /\ fetched = "error" /\ sigint = "none"
    /\ payload # NoPayload
    /\ calls = << <<"sleep", CycleDelay>> >>

(***************************************************************************)
(* C19: no update() or clear() is issued before the first connect has      *)
(* succeeded, and every update() or clear() is issued while the channel    *)
(* is Connected.                                                           *)
(***************************************************************************)
C19_OperationsOnlyWhileConnected ==
    /\ [](pc \in {"update", "clear"} => conn = "Connected")
    /\ []((Count("update") + Count("clear") > 0 /\ opres # "fail") => conn = "Connected")
    /\ [][(Count("update")' > Count("update") \/ Count("clear")' > Count("clear")) =>
              (conn = "Connected" /\ conn' = "Connected")]_vars

C19_Witness ==
    /\ pc = "update" /\ conn = "Connected" /\ sigint = "none"
    /\ Count("update") = 1 /\ upd # <<>>

(***************************************************************************)
(* C20: in the discrackt.py revision an interrupt delivered while          *)
(* connect_discord() is inside a connect attempt, or while the idle        *)
(* branch is inside clear(), terminates the process: the SystemExit of     *)
(* the handler is not absorbed by the surrounding retry / recovery code.   *)
(***************************************************************************)
C20_InterruptNotAbsorbed ==
    [][(SigStep /\ pc \in {"RPC_connect", "clear"}) => (pc' = "done" /\ exit' # "running")]_vars

====
